---- MODULE Spec2Model ----
(***************************************************************************)
(* A model of the fundamentals normaliser of the watchlist application     *)
(* (src/src/fundamentals.py) and of the part of the page script            *)
(* (src/app.py) that builds the combined metrics/fundamentals table.       *)
(*                                                                         *)
(* Python values are records [k, n, d]: k is the kind ("none" for None,    *)
(* "nan" for a float NaN, "str" for a non-numeric object such as "N/A",    *)
(* "num" for a finite number) and n/d is the number as an exact fraction   *)
(* in lowest terms (d > 0).  Float rounding is not modelled: v / 100 is    *)
(* the exact quotient.                                                     *)
(***************************************************************************)
EXTENDS Integers, Sequences, FiniteSets, TLC

VARIABLES
    pc,            \* position of the call in progress
    v,             \* _normalize_decimal: the argument
    ret,           \* _normalize_decimal: the value returned
    ret2,          \* _normalize_decimal applied to its own result
    info,          \* _safe_dividend_yield: the info dict of the instrument
    price,         \* _safe_dividend_yield: the price argument
    dividends,     \* tk.dividends: [fail |-> it raises, series |-> the payments]
    yield,         \* _safe_dividend_yield: the value returned
    divsRead,      \* whether tk.dividends was evaluated during the call
    tickers,       \* fetch_fundamentals_many: the requested tickers
    provider,      \* the data provider's answers, per ticker symbol
    funds,         \* fetch_fundamentals_many: [raised, cols, rows]
    benchmark_input, \* app.py: the benchmark text box
    user_tokens,   \* app.py: the Quick Compare text area, split at commas
    saved,         \* app.py: tickers of the selected saved categories
    benchmark,     \* app.py: the benchmark symbol
    user_tickers,  \* app.py: the working universe
    loadable,      \* symbols whose price history the provider can load
    prices,        \* app.py: the columns of the price matrix
    metrics,       \* app.py: the index of the metrics table
    fund_tickers,  \* app.py: the tickers handed to fetch_fundamentals_many
    combined,      \* app.py: the rows of the combined table
    file,          \* data/watchlist.yaml
    data,          \* app.py: the dict load_watchlist returned to this run
    last,          \* history: the last Add or Remove and the file before it
    lastOp         \* history: the last operation on each (category, ticker)

vars == <<pc, v, ret, ret2, info, price, dividends, yield, divsRead,
          tickers, provider, funds, benchmark_input, user_tokens, saved,
          benchmark, user_tickers, loadable, prices, metrics, fund_tickers,
          combined, file, data, last, lastOp>>

normVars == <<v, ret, ret2>>
divVars  == <<info, price, dividends, yield, divsRead>>
manyVars == <<tickers, provider, funds>>
storeVars == <<file, data, last, lastOp>>
appVars  == <<benchmark_input, user_tokens, saved, benchmark, user_tickers,
              loadable, prices, metrics, fund_tickers, combined>>

(***************************************************************************)
(* Numbers                                                                 *)
(***************************************************************************)
Abs(x) == IF x < 0 THEN -x ELSE x

RECURSIVE GCD(_, _)
GCD(a, b) == IF b = 0 THEN a ELSE GCD(b, a % b)

\* The fraction n/d (d > 0) in lowest terms, as a finite float.
Rat(n, d) ==
    LET g == GCD(Abs(n), d)
    IN  [k |-> "num", n |-> n \div g, d |-> d \div g]

Num(n)  == Rat(n, 1)
None    == [k |-> "none", n |-> 0, d |-> 1]
NaN     == [k |-> "nan",  n |-> 0, d |-> 1]
NotANumber == [k |-> "str", n |-> 0, d |-> 1]    \* e.g. the string "N/A"

IsNum(x) == x.k = "num"
Lt(a, b) == a.n * b.d < b.n * a.d
Le(a, b) == a.n * b.d <= b.n * a.d
Quot(a, b) == Rat(a.n * b.d, a.d * b.n)          \* a / b for b > 0
Plus(a, b) == Rat(a.n * b.d + b.n * a.d, a.d * b.d)

Zero     == Num(0)
One      == Num(1)
Hundred  == Num(100)
OneFifth == Rat(2, 10)

(***************************************************************************)
(* _to_float, _safe_pick, _normalize_decimal                               *)
(***************************************************************************)
\* float(x): a number for a number or NaN; raises for None and "N/A".
FloatRaises(x) == x.k \in {"none", "str"}

_to_float(x) ==
    IF x.k = "none" THEN NaN
    ELSE IF FloatRaises(x) THEN NaN
    ELSE x

RECURSIVE _safe_pick(_, _)
_safe_pick(d, keys) ==
    IF keys = <<>> THEN NaN
    ELSE IF d[Head(keys)].k # "none" THEN _to_float(d[Head(keys)])
    ELSE _safe_pick(d, Tail(keys))

\* A slip at the boundary: 1.0 itself taken as a percent-scale value.
_normalize_decimal_mut(x) ==
    IF x.k \in {"none", "nan"} THEN NaN
    ELSE IF Le(Zero, x) /\ Lt(x, One) THEN x
    ELSE IF Le(One, x) /\ Le(x, Hundred) THEN Quot(x, Hundred)
    ELSE x

\* A slip in the range: the percent branch without its upper limit.
_normalize_decimal_wide(x) ==
    IF x.k \in {"none", "nan"} THEN NaN
    ELSE IF Le(Zero, x) /\ Le(x, One) THEN x
    ELSE IF Lt(One, x) THEN Quot(x, Hundred)
    ELSE x

_normalize_decimal(x) ==
    IF x.k \in {"none", "nan"} THEN NaN
    ELSE IF Le(Zero, x) /\ Le(x, One) THEN x
    ELSE IF Lt(One, x) /\ Le(x, Hundred) THEN Quot(x, Hundred)
    ELSE x

(***************************************************************************)
(* _safe_dividend_yield                                                    *)
(***************************************************************************)
YearDays  == 365      \* pd.Timedelta(days=365)
TailCount == 4        \* divs.dropna().tail(4)

Unresolved == [ok |-> FALSE, val |-> NaN]

\* A slip at the boundary: 0.2 itself taken as a percent-scale value.
Candidate_mut(x) ==
    IF x.k = "none" THEN [ok |-> FALSE, val |-> NaN]
    ELSE IF FloatRaises(x) THEN [ok |-> FALSE, val |-> NaN]
    ELSE IF x.k = "nan" THEN [ok |-> FALSE, val |-> NaN]
    ELSE IF Le(One, x) THEN [ok |-> TRUE, val |-> Quot(x, Hundred)]
    ELSE IF Le(OneFifth, x) /\ Lt(x, One) THEN [ok |-> TRUE, val |-> Quot(x, Hundred)]
    ELSE IF Le(Zero, x) /\ Le(x, OneFifth) THEN [ok |-> TRUE, val |-> x]
    ELSE [ok |-> FALSE, val |-> NaN]

\* The resolver without its "suspicious decimal" branch: a value between 0.2
\* and 1.0 is accepted as the decimal it looks like.
Candidate_plain(x) ==
    IF x.k = "none" THEN [ok |-> FALSE, val |-> NaN]
    ELSE IF FloatRaises(x) THEN [ok |-> FALSE, val |-> NaN]
    ELSE IF x.k = "nan" THEN [ok |-> FALSE, val |-> NaN]
    ELSE IF Le(One, x) THEN [ok |-> TRUE, val |-> Quot(x, Hundred)]
    ELSE IF Le(Zero, x) /\ Lt(x, One) THEN [ok |-> TRUE, val |-> x]
    ELSE [ok |-> FALSE, val |-> NaN]

\* One turn of the loop over the candidates: the value returned from inside
\* the loop, or Unresolved when the loop goes on to the next candidate.
Candidate(x) ==
    IF x.k = "none" THEN Unresolved
    ELSE IF FloatRaises(x) THEN Unresolved
    ELSE IF x.k = "nan" THEN Unresolved
    ELSE IF Le(One, x) THEN [ok |-> TRUE, val |-> Quot(x, Hundred)]
    ELSE IF Lt(OneFifth, x) /\ Lt(x, One) THEN [ok |-> TRUE, val |-> Quot(x, Hundred)]
    ELSE IF Le(Zero, x) /\ Le(x, OneFifth) THEN [ok |-> TRUE, val |-> x]
    ELSE Unresolved

RECURSIVE FirstResolved(_)
FirstResolved(cands) ==
    IF cands = <<>> THEN Unresolved
    ELSE IF Candidate(Head(cands)).ok THEN Candidate(Head(cands))
    ELSE FirstResolved(Tail(cands))

\* `if price and price > 0`
PricePositive(p) == p.k = "num" /\ Lt(Zero, p)

RECURSIVE MaxDate(_)
MaxDate(s) ==
    IF Len(s) = 1 THEN s[1].date
    ELSE LET m == MaxDate(Tail(s))
         IN  IF s[1].date > m THEN s[1].date ELSE m

\* Series.sum(): NaN entries are skipped, the sum of nothing is 0.
RECURSIVE SumSkipNa(_)
SumSkipNa(s) ==
    IF s = <<>> THEN Zero
    ELSE IF s[1].amt.k = "num" THEN Plus(s[1].amt, SumSkipNa(Tail(s)))
    ELSE SumSkipNa(Tail(s))

DropNa(s) == SelectSeq(s, LAMBDA e : e.amt.k = "num")

LastN(s, n) == IF Len(s) <= n THEN s ELSE SubSeq(s, Len(s) - n + 1, Len(s))

\* A slip in the comparison: the payment made exactly 365 days before the
\* latest one is kept (>= cutoff).
LastYear_mut(s) ==
    LET cutoff == MaxDate(s) - YearDays
    IN  SelectSeq(s, LAMBDA e : e.date >= cutoff)

\* divs[divs.index > cutoff], cutoff = latest - 365 days
LastYear(s) ==
    LET cutoff == MaxDate(s) - YearDays
    IN  SelectSeq(s, LAMBDA e : e.date > cutoff)

TrailingTotal(s) ==
    IF LastYear(s) # <<>> THEN SumSkipNa(LastYear(s))
    ELSE SumSkipNa(LastN(DropNa(s), TailCount))

\* A slip in the last test: a total of zero is divided by the price too
\* (total >= 0).
DividendFallback_mut(divs, p) ==
    IF ~PricePositive(p) THEN [val |-> NaN, read |-> FALSE]
    ELSE IF divs.fail THEN [val |-> NaN, read |-> TRUE]
    ELSE IF divs.series = <<>> THEN [val |-> NaN, read |-> TRUE]
    ELSE IF Le(Zero, TrailingTotal(divs.series))
         THEN [val |-> Quot(TrailingTotal(divs.series), p), read |-> TRUE]
    ELSE [val |-> NaN, read |-> TRUE]

\* The fallback block: [val, read], read telling whether tk.dividends was
\* evaluated.
DividendFallback(divs, p) ==
    IF ~PricePositive(p) THEN [val |-> NaN, read |-> FALSE]
    ELSE IF divs.fail THEN [val |-> NaN, read |-> TRUE]
    ELSE IF divs.series = <<>> THEN [val |-> NaN, read |-> TRUE]
    ELSE IF Lt(Zero, TrailingTotal(divs.series))
         THEN [val |-> Quot(TrailingTotal(divs.series), p), read |-> TRUE]
    ELSE [val |-> NaN, read |-> TRUE]

_safe_dividend_yield(divs, d, p) ==
    LET c == FirstResolved(<<d["dividendYield"], d["trailingAnnualDividendYield"]>>)
    IN  IF c.ok THEN [val |-> c.val, read |-> FALSE]
        ELSE DividendFallback(divs, p)

(***************************************************************************)
(* Ticker text.  A piece of text is [s, lc, pad]: s its letters in upper   *)
(* case without surrounding blanks, lc whether it is written in lower      *)
(* case, pad whether blanks surround it.                                   *)
(***************************************************************************)
Text(s, lc, pad) == [s |-> s, lc |-> lc /\ s # "", pad |-> pad]
Plain(s) == Text(s, FALSE, FALSE)
Strip(t) == [t EXCEPT !.pad = FALSE]
Upper(t) == [t EXCEPT !.lc = FALSE]

(***************************************************************************)
(* fetch_fundamentals_one                                                  *)
(***************************************************************************)
COLUMNS == <<"P/E", "Forward P/E", "D/E", "Div Yield", "Net Profit Margin",
             "Expense Ratio">>

InfoKeys == {"trailingPE", "forwardPE", "debtToEquity", "dividendYield",
             "trailingAnnualDividendYield", "profitMargins", "netMargins",
             "currentPrice", "annualReportExpenseRatio", "expenseRatio",
             "fundExpenseRatio"}

FUND_KEYS_MAP ==
    [c \in {"P/E", "Forward P/E", "D/E", "Div Yield", "Net Profit Margin"} |->
        CASE c = "P/E" -> <<"trailingPE">>
          [] c = "Forward P/E" -> <<"forwardPE">>
          [] c = "D/E" -> <<"debtToEquity">>
          [] c = "Div Yield" -> <<"dividendYield", "trailingAnnualDividendYield">>
          [] c = "Net Profit Margin" -> <<"profitMargins", "netMargins">>]

EmptyInfo == [k \in InfoKeys |-> None]

\* Python truth value: None and 0.0 are false; NaN, "N/A" and every other
\* number are true.
Truthy(x) == ~(x.k = "none" \/ (x.k = "num" /\ x.n = 0))

\* a or b
Or(a, b) == IF Truthy(a) THEN a ELSE b

\* The try block around yf.Ticker(t) and tk.get_info(): the info dict, and
\* whether the local name tk was bound.
PullInfo(w) ==
    IF w.tkFail THEN [bound |-> FALSE, info |-> EmptyInfo, quoteType |-> ""]
    ELSE IF w.infoFail THEN [bound |-> TRUE, info |-> EmptyInfo, quoteType |-> ""]
    ELSE [bound |-> TRUE, info |-> w.info, quoteType |-> w.quoteType]

\* close.iloc[-1] of hist["Close"].dropna(), or None
LastClose(w, bound) ==
    IF ~bound \/ w.histFail THEN None
    ELSE LET close == SelectSeq(w.close, LAMBDA x : x.k = "num")
         IN  IF close = <<>> THEN None ELSE close[Len(close)]

RecentPrice(w, pulled) ==
    LET p == _to_float(pulled.info["currentPrice"])
    IN  IF p.k = "num" /\ Lt(Zero, p) THEN p
        ELSE LastClose(w, pulled.bound)

ExpenseRatio(d, quoteType) ==
    LET er == _to_float(Or(Or(d["annualReportExpenseRatio"], d["expenseRatio"]),
                           d["fundExpenseRatio"]))
    IN  IF quoteType = "ETF" THEN _normalize_decimal(er)
        ELSE IF er.k # "none" /\ er.k # "nan" THEN _normalize_decimal(er)
        ELSE NaN

UpperQuoteType(q) == IF q = "etf" THEN "ETF" ELSE q

\* [exc, empty, row]: exc when the call raises, empty when it returns {}.
fetch_fundamentals_one(ticker, prov) ==
    LET t == Upper(Strip(ticker)).s
        NoRow == [Ticker |-> t, vals |-> [c \in {} |-> NaN]]
    IN  IF t = "" THEN [exc |-> FALSE, empty |-> TRUE, row |-> NoRow]
        ELSE
        LET w      == prov[t]
            pulled == PullInfo(w)
            picked == [c \in DOMAIN FUND_KEYS_MAP |->
                          _safe_pick(pulled.info, FUND_KEYS_MAP[c])]
            p      == RecentPrice(w, pulled)
            dy     == _safe_dividend_yield([fail |-> w.divsFail, series |-> w.divs],
                                           pulled.info, p)
            er     == ExpenseRatio(pulled.info, UpperQuoteType(pulled.quoteType))
            vals   == [c \in DOMAIN FUND_KEYS_MAP \cup {"Expense Ratio"} |->
                          CASE c = "Div Yield" -> dy.val
                            [] c = "Expense Ratio" -> er
                            [] c = "Net Profit Margin" -> _normalize_decimal(picked[c])
                            [] OTHER -> _to_float(picked[c])]
        IN  \* the name tk is unbound where _safe_dividend_yield(tk, ...) reads it
            IF ~pulled.bound THEN [exc |-> TRUE, empty |-> FALSE, row |-> NoRow]
            ELSE [exc |-> FALSE, empty |-> FALSE,
                  row |-> [Ticker |-> t, vals |-> vals]]

(***************************************************************************)
(* fetch_fundamentals_many                                                 *)
(***************************************************************************)
\* What an exception of fetch_fundamentals_one does to the loop, were it not
\* caught.
TryOne_mut(one) ==
    IF one.exc THEN "raise"
    ELSE IF one.empty THEN "skip"
    ELSE "append"

\* The try block of the loop body: `continue` on an exception, append a
\* record that is not empty.
TryOne(one) ==
    IF one.exc THEN "skip"
    ELSE IF one.empty THEN "skip"
    ELSE "append"

RECURSIVE CollectRecords(_, _, _)
CollectRecords(ts, prov, records) ==
    IF ts = <<>> THEN [raised |-> FALSE, records |-> records]
    ELSE LET one == fetch_fundamentals_one(Head(ts), prov)
         IN  CASE TryOne(one) = "raise" -> [raised |-> TRUE, records |-> records]
               [] TryOne(one) = "skip" -> CollectRecords(Tail(ts), prov, records)
               [] OTHER -> CollectRecords(Tail(ts), prov, Append(records, one.row))

Range(s) == {s[i] : i \in DOMAIN s}

\* df[c] = np.nan for a column no record has; df = df[COLUMNS]
Shape(row) ==
    [Ticker |-> row.Ticker,
     vals |-> [c \in Range(COLUMNS) |->
                  IF c \in DOMAIN row.vals THEN row.vals[c] ELSE NaN]]

fetch_fundamentals_many(ts, prov) ==
    LET got == CollectRecords(ts, prov, <<>>)
    IN  [raised |-> got.raised,
         cols   |-> COLUMNS,
         rows   |-> [i \in DOMAIN got.records |-> Shape(got.records[i])]]

(***************************************************************************)
(* symbols.py, input_utils.py, data_sources.py and the page script         *)
(***************************************************************************)
\* The symbols of the model in the order sorted() gives them
SymbolOrder == <<"", "AAA", "BBB", "SPX", "SPY", "^GSPC">>

Sorted(S) == SelectSeq(SymbolOrder, LAMBDA t : t \in S)

\* ALIASES, for the symbols of the model
ALIASES == [t \in {"SPX"} |-> "^GSPC"]

normalize_ticker(sym) ==
    LET u == Upper(Strip(sym)).s
    IN  IF u = "" THEN ""
        ELSE IF u \in DOMAIN ALIASES THEN ALIASES[u] ELSE u

\* The pieces between the commas, stripped and upper-cased, the empty ones
\* dropped
parse_ticker_list(pieces) ==
    SelectSeq([i \in DOMAIN pieces |-> Upper(Strip(pieces[i]))],
              LAMBDA t : t.s # "")

normalize_list(items) ==
    LET kept == SelectSeq(items, LAMBDA t : Strip(t).s # "")
    IN  [i \in DOMAIN kept |-> normalize_ticker(kept[i])]

\* sorted(set(user_tickers + ([benchmark] if benchmark else [])))
TickersToFetch(universe, bench) ==
    Sorted(Range(universe) \cup (IF bench # "" THEN {bench} ELSE {}))

\* The columns of fetch_close_many's frame: a ticker that cannot be loaded is
\* left out.
fetch_close_many(ts, canLoad) ==
    SelectSeq(ts, LAMBDA t : t # "" /\ t \in canLoad)

\* The index of the metrics table: every column but the benchmark's.
compute_all_metrics(cols, bench) == SelectSeq(cols, LAMBDA t : t # bench)

\* metrics.index.tolist()
FundTickers(index) == [i \in DOMAIN index |-> Plain(index[i])]

MissingRow(t) == [Ticker |-> t, vals |-> [c \in Range(COLUMNS) |-> NaN]]

RECURSIVE Concat(_)
Concat(ss) == IF ss = <<>> THEN <<>> ELSE Head(ss) \o Concat(Tail(ss))

\* A join that keeps only the instruments with a fundamentals row
\* (how="inner").
LeftJoin_mut(index, table) ==
    Concat([i \in DOMAIN index |->
               SelectSeq(table.rows, LAMBDA r : r.Ticker = index[i])])

\* metrics.join(funds, how="left"): every metrics row, with the fundamentals
\* of its ticker or with missing values.
LeftJoin(index, table) ==
    Concat([i \in DOMAIN index |->
               LET found == SelectSeq(table.rows, LAMBDA r : r.Ticker = index[i])
               IN  IF found = <<>> THEN <<MissingRow(index[i])>> ELSE found])

(***************************************************************************)
(* storage.py: the watchlist file                                          *)
(*                                                                         *)
(* The file is [state, top, map]: state says whether it exists and can be  *)
(* read and parsed, top is the kind of value yaml.safe_load returns, map   *)
(* is that value when it is a mapping.  A value of a mapping is            *)
(* [kind, items] and an item is [kind, t], t the text of a string item.    *)
(* yaml.safe_dump quotes every string that would load as something else,   *)
(* so a list of strings is read back as it was written.                    *)
(***************************************************************************)
DEFAULT_CATEGORIES ==
    <<"US Equities", "International Equities", "Emerging Market Equities",
      "Global Factor Equities", "Canada Equities", "Long-Duration Bonds",
      "Aggregate Bonds", "Short-Term Credit", "Gold", "Silver">>

StrItem(t) == [kind |-> "str", t |-> t]
NullItem   == [kind |-> "null", t |-> Plain("")]
IntItem    == [kind |-> "int", t |-> Plain("")]

ListVal(items) == [kind |-> "list", items |-> items]
NullVal        == [kind |-> "null", items |-> <<>>]
ScalarVal      == [kind |-> "scalar", items |-> <<>>]

\* A list of plain strings, as the normalised lists are
Strings(seq) == ListVal([i \in DOMAIN seq |-> StrItem(Plain(seq[i]))])

\* "if t": None and "" are false, a non-zero number and any other string,
\* one of blanks only included, are true
ItemTruthy(x) == x.kind = "int" \/ (x.kind = "str" /\ (x.t.s # "" \/ x.t.pad))

\* (t or "").strip().upper() of a number raises AttributeError
ItemRaises(x) == x.kind = "int"

\* (t or "").strip().upper()
Clean(x) == Upper(Strip(x.t)).s

\* {(t or "").strip().upper() for t in items if t}
Kept(items) == {Clean(items[i]) : i \in {j \in DOMAIN items : ItemTruthy(items[j])}}

\* sorted({(t or "").strip().upper() for t in val if t}): [raised, val].
\* Iterating None or a number raises TypeError.
NormalizeTickers(val) ==
    IF val.kind # "list" THEN [raised |-> TRUE, val |-> ListVal(<<>>)]
    ELSE IF \E i \in DOMAIN val.items : ItemRaises(val.items[i])
         THEN [raised |-> TRUE, val |-> ListVal(<<>>)]
    ELSE [raised |-> FALSE, val |-> Strings(Sorted(Kept(val.items)))]

NoMap == [c \in {} |-> ListVal(<<>>)]
NoFile == [state |-> "absent", top |-> "none", map |-> NoMap]
MapFile(m) == [state |-> "parsed", top |-> "map", map |-> m]

\* data.get(c, []) and, after data.setdefault(c, []), data[c]
Get(m, c) == IF c \in DOMAIN m THEN m[c] ELSE ListVal(<<>>)

\* Lines 21-28: [raised, map], the value of data before the loop.  Only
\* exists(), open() and yaml.safe_load() are inside the try; "or {}" turns
\* the None of an empty document into {}.
ReadData(f) ==
    IF f.state # "parsed" THEN [raised |-> FALSE, map |-> NoMap]
    ELSE IF f.top = "none" THEN [raised |-> FALSE, map |-> NoMap]
    ELSE IF f.top = "map" THEN [raised |-> FALSE, map |-> f.map]
    ELSE [raised |-> TRUE, map |-> NoMap]   \* a list or a scalar has no setdefault

\* load_watchlist(): [raised, data]
load_watchlist(f) ==
    LET got == ReadData(f)
        m == got.map
    IN  IF got.raised THEN [raised |-> TRUE, data |-> NoMap]
        ELSE IF \E c \in Range(DEFAULT_CATEGORIES) : NormalizeTickers(Get(m, c)).raised
             THEN [raised |-> TRUE, data |-> NoMap]
        ELSE [raised |-> FALSE,
              data |-> [c \in DOMAIN m \cup Range(DEFAULT_CATEGORIES) |->
                           IF c \in Range(DEFAULT_CATEGORIES)
                           THEN NormalizeTickers(Get(m, c)).val
                           ELSE m[c]]]

\* A slip: the mapping is written with every key it holds.
SavedKeys_mut(d) == DOMAIN d \cup Range(DEFAULT_CATEGORIES)

\* for c in DEFAULT_CATEGORIES
SavedKeys(d) == Range(DEFAULT_CATEGORIES)

\* save_watchlist(data), the file being f: [raised, file].  out is built
\* before the file is opened for writing.
save_watchlist(d, f) ==
    IF \E c \in SavedKeys(d) : NormalizeTickers(Get(d, c)).raised
    THEN [raised |-> TRUE, file |-> f]
    ELSE [raised |-> FALSE,
          file |-> MapFile([c \in SavedKeys(d) |-> NormalizeTickers(Get(d, c)).val])]

(***************************************************************************)
(* app.py, the sidebar: Add and Remove                                     *)
(***************************************************************************)
\* The strings of a list
StringsOf(val) == [i \in DOMAIN val.items |-> val.items[i].t.s]

\* new_ticker.strip() is not empty
Submitted(t) == Strip(t).s # ""

\* nt in data[cat], nt = new_ticker.strip().upper()
Listed(d, cat, t) == Upper(Strip(t)).s \in Range(StringsOf(d[cat]))

\* data[cat].append(nt)
AddTicker(d, cat, t) ==
    [d EXCEPT ![cat] = ListVal(Append(@.items, StrItem(Plain(Upper(Strip(t)).s))))]

\* A slip in the filter: t == to_remove keeps the ticker and drops the others.
RemoveTicker_mut(d, cat, to_remove) ==
    [d EXCEPT ![cat] = ListVal(SelectSeq(@.items, LAMBDA x : x.t.s = to_remove))]

\* data[cat_r] = [t for t in data[cat_r] if t != to_remove]
RemoveTicker(d, cat, to_remove) ==
    [d EXCEPT ![cat] = ListVal(SelectSeq(@.items, LAMBDA x : x.t.s # to_remove))]

(***************************************************************************)
(* Values a specification leaves alone                                     *)
(***************************************************************************)
NoSeries == [fail |-> FALSE, series |-> <<>>]
NoTable  == [raised |-> FALSE, cols |-> <<>>, rows |-> <<>>]

IdleNorm == v = None /\ ret = None /\ ret2 = None
IdleDiv  == /\ info = EmptyInfo /\ price = None /\ dividends = NoSeries
            /\ yield = None /\ divsRead = FALSE
NoLast == [op |-> "none", cat |-> "", t |-> Plain(""), wrote |-> FALSE, view |-> NoMap,
           before |-> NoFile]
IdleStore == file = NoFile /\ data = NoMap /\ last = NoLast /\ lastOp = <<>>
IdleMany == tickers = <<>> /\ provider = <<>> /\ funds = NoTable
IdleApp  == /\ benchmark_input = Plain("") /\ user_tokens = <<>> /\ saved = {}
            /\ benchmark = "" /\ user_tickers = <<>>
            /\ loadable = {} /\ prices = <<>> /\ metrics = <<>>
            /\ fund_tickers = <<>> /\ combined = <<>>

(***************************************************************************)
(* _normalize_decimal applied to an input, and to its own result           *)
(***************************************************************************)
MaxNormNum == 302

\* None, NaN and the halves from -2 to MaxNormNum / 2
NormInputs == {None, NaN} \cup {Rat(k, 2) : k \in (-4)..MaxNormNum}

InitNorm ==
    /\ pc = "nd_call"
    /\ v \in NormInputs
    /\ ret = None /\ ret2 = None
    /\ IdleDiv /\ IdleMany /\ IdleApp /\ IdleStore

Normalize ==
    /\ pc = "nd_call"
    /\ ret' = _normalize_decimal(v)
    /\ pc' = "nd_again"
    /\ UNCHANGED <<v, ret2, divVars, manyVars, appVars, storeVars>>

NormalizeAgain ==
    /\ pc = "nd_again"
    /\ ret2' = _normalize_decimal(ret)
    /\ pc' = "nd_done"
    /\ UNCHANGED <<v, ret, divVars, manyVars, appVars, storeVars>>

NextNorm == Normalize \/ NormalizeAgain

SpecNorm == InitNorm /\ [][NextNorm]_vars

(***************************************************************************)
(* Properties of _normalize_decimal                                        *)
(***************************************************************************)
Returned == pc \in {"nd_again", "nd_done"}

\* r is x / 100, stated by cross-multiplication
IsHundredth(r, x) == r.k = "num" /\ r.n * x.d * 100 = x.n * r.d

\* C3: normalize_decimal returns missing for a missing input (None or NaN),
\* v unchanged for 0 <= v <= 1, v/100 for 1 < v <= 100 and v unchanged for
\* v < 0 or v > 100; so 0.5 -> 0.5, 45 -> 0.45, 150 -> 150, 1 -> 1, 100 -> 1.
NormalizeDecimalContract ==
    Returned =>
        /\ v.k \in {"none", "nan"} => ret = NaN
        /\ IsNum(v) /\ 0 <= v.n /\ v.n <= v.d => ret = v
        /\ IsNum(v) /\ v.d < v.n /\ v.n <= 100 * v.d => IsHundredth(ret, v)
        /\ IsNum(v) /\ (v.n < 0 \/ v.n > 100 * v.d) => ret = v
        /\ v = Rat(1, 2) => ret = Rat(1, 2)
        /\ v = Num(45) => ret = Rat(45, 100)
        /\ v = Num(150) => ret = Num(150)
        /\ v = Num(1) => ret = Num(1)
        /\ v = Num(100) => ret = Num(1)

\* A percent-scale input has been converted.
NormalizeDecimalSeen == pc = "nd_done" /\ v = Num(45) /\ ret = Rat(9, 20)

\* C10: normalize_decimal is idempotent on every input, missing, negative and
\* above 100 included: applying it to its own result changes nothing.
NormalizeDecimalIdempotent == pc = "nd_done" => ret2 = ret

\* Both applications have run on an input outside [0, 1]: 1.5 became 0.015
\* and stayed 0.015.
NormalizeTwiceSeen ==
    /\ pc = "nd_done"
    /\ v = Rat(3, 2)
    /\ ret = Rat(3, 200) /\ ret2 = Rat(3, 200)

(***************************************************************************)
(* _safe_dividend_yield called on candidate fields, a price and a          *)
(* dividend history                                                        *)
(***************************************************************************)
MaxCandK   == 24     \* candidates up to MaxCandK / 20
MaxDateIdx == 5      \* payment dates 0, DayStep, ..., MaxDateIdx * DayStep
DayStep    == 73     \* days between two possible payment dates

CandValues ==
    {None, NotANumber, NaN, Rat(15, 1000), Rat(119, 100), Num(150)}
        \cup {Rat(k, 20) : k \in (-1)..MaxCandK}

\* Candidate pairs of which at most the second resolves
FewCandPairs ==
    {<<None, None>>, <<NaN, NotANumber>>, <<Rat(-1, 20), None>>,
     <<None, Rat(15, 1000)>>}

InfoWith(c1, c2) ==
    [EmptyInfo EXCEPT !["dividendYield"] = c1,
                      !["trailingAnnualDividendYield"] = c2]

Prices == {None, NaN, Zero, Num(-1), Num(1), Num(50)}

Amount(a) == IF a = "nan" THEN NaN ELSE IF a = "zero" THEN Zero ELSE One

\* The payments chosen by f (a date index -> "absent", "nan", "zero" or
\* "one"), in ascending date order from index i on.
RECURSIVE SeriesFrom(_, _)
SeriesFrom(f, i) ==
    IF i > MaxDateIdx THEN <<>>
    ELSE IF f[i] = "absent" THEN SeriesFrom(f, i + 1)
    ELSE <<[date |-> i * DayStep, amt |-> Amount(f[i])]>> \o SeriesFrom(f, i + 1)

Histories ==
    {[fail |-> TRUE, series |-> <<>>]} \cup
    {[fail |-> FALSE, series |-> SeriesFrom(f, 0)] :
        f \in [0..MaxDateIdx -> {"absent", "nan", "zero", "one"}]}

FewHistories ==
    {[fail |-> TRUE, series |-> <<>>], NoSeries,
     [fail |-> FALSE, series |-> <<[date |-> 0, amt |-> One]>>]}

InitDiv ==
    /\ pc = "dy_call"
    /\ \/ /\ \E c1 \in CandValues, c2 \in CandValues : info = InfoWith(c1, c2)
          /\ price \in {None, Num(50)}
          /\ dividends \in FewHistories
       \/ /\ \E c \in FewCandPairs : info = InfoWith(c[1], c[2])
          /\ price \in Prices
          /\ dividends \in Histories
    /\ yield = None /\ divsRead = FALSE
    /\ IdleNorm /\ IdleMany /\ IdleApp /\ IdleStore

SafeDividendYield ==
    /\ pc = "dy_call"
    /\ LET r == _safe_dividend_yield(dividends, info, price)
       IN  yield' = r.val /\ divsRead' = r.read
    /\ pc' = "dy_done"
    /\ UNCHANGED <<info, price, dividends, normVars, manyVars, appVars, storeVars>>

NextDiv == SafeDividendYield

SpecDiv == InitDiv /\ [][NextDiv]_vars

(***************************************************************************)
(* Properties of _safe_dividend_yield                                      *)
(***************************************************************************)
Cand1 == info["dividendYield"]
Cand2 == info["trailingAnnualDividendYield"]

\* A candidate resolves when it is a number that is not negative.
Resolves(x) == IsNum(x) /\ x.n >= 0

\* r is the value the rule gives a resolving candidate x.
RuleValue(r, x) ==
    /\ x.n >= x.d => IsHundredth(r, x)                        \* x >= 1.0
    /\ 5 * x.n > x.d /\ x.n < x.d => IsHundredth(r, x)        \* 0.2 < x < 1.0
    /\ 5 * x.n <= x.d => r = x                                \* 0 <= x <= 0.2

\* C1: the first candidate, in the order dividendYield,
\* trailingAnnualDividendYield, that is a number >= 0 decides the result:
\* v/100 for v >= 1.0 and for 0.2 < v < 1.0, v itself for 0 <= v <= 0.2.
\* An absent, non-numeric, NaN or negative candidate is passed over, and a
\* later candidate never overrides an earlier one that resolves.
DividendCandidateRule ==
    pc = "dy_done" =>
        /\ Resolves(Cand1) => RuleValue(yield, Cand1)
        /\ ~Resolves(Cand1) /\ Resolves(Cand2) => RuleValue(yield, Cand2)

\* A negative first candidate was passed over and the second one, 1.19,
\* was taken as a percentage.
DividendCandidateSeen ==
    /\ pc = "dy_done"
    /\ Cand1 = Rat(-1, 20) /\ Cand2 = Rat(119, 100)
    /\ yield = Rat(119, 10000)

\* C2 as stated: 1.19 resolves to 0.0119, 0.015 to 0.015 and 0.45 to 0.045.
DividendExamplesAsStated ==
    pc = "dy_done" =>
        /\ Cand1 = Rat(119, 100) => yield = Rat(119, 10000)
        /\ Cand1 = Rat(15, 1000) => yield = Rat(15, 1000)
        /\ Cand1 = Rat(45, 100) => yield = Rat(45, 1000)

\* C2 as amended: 1.19 resolves to 0.0119, 0.015 to 0.015 and 0.45 to
\* 0.0045 (0.45 / 100, as the rule for 0.2 < v < 1.0 says).
DividendExamples ==
    pc = "dy_done" =>
        /\ Cand1 = Rat(119, 100) => yield = Rat(119, 10000)
        /\ Cand1 = Rat(15, 1000) => yield = Rat(15, 1000)
        /\ Cand1 = Rat(45, 100) => yield = Rat(45, 10000)

\* The candidate 0.45 has been resolved.
DividendExampleSeen ==
    pc = "dy_done" /\ Cand1 = Rat(45, 100) /\ yield = Rat(45, 10000)

Payments == dividends.series
Dates    == {Payments[i].date : i \in DOMAIN Payments}
Latest   == CHOOSE d \in Dates : \A e \in Dates : e <= d
Earliest == CHOOSE d \in Dates : \A e \in Dates : d <= e

\* The payments with an amount (NaN entries carry none)
Paid == {i \in DOMAIN Payments : Payments[i].amt.k = "num"}

\* The payments made less than 365 days before the latest one, or on its day
InWindow == {i \in Paid : Latest - Payments[i].date < YearDays}

\* The last 4 payments
LastFour == {i \in Paid : Cardinality({j \in Paid : j > i}) < TailCount}

RECURSIVE SumOf(_)
SumOf(I) ==
    IF I = {} THEN Zero
    ELSE LET i == CHOOSE j \in I : TRUE
         IN  Plus(Payments[i].amt, SumOf(I \ {i}))

\* r is t / p, stated by cross-multiplication
IsQuotient(r, t, p) == r.k = "num" /\ r.n * t.d * p.n = t.n * p.d * r.d

\* The resolver is in its fallback with a history to sum.
FallbackApplies ==
    /\ pc = "dy_done"
    /\ ~Resolves(Cand1) /\ ~Resolves(Cand2)
    /\ PricePositive(price)
    /\ ~dividends.fail /\ Payments # <<>>

YieldFrom(total) ==
    IF Lt(Zero, total) THEN IsQuotient(yield, total, price) ELSE yield = NaN

\* C4 as stated: with no resolving candidate and a positive price the result
\* is the sum of the payments within 365 days of the latest one, divided by
\* the price, and for a history spanning less than a year the sum of the last
\* 4 payments only, divided by the price.
DividendFallbackAsStated ==
    FallbackApplies =>
        IF Latest - Earliest < YearDays THEN YieldFrom(SumOf(LastFour))
        ELSE YieldFrom(SumOf(InWindow))

\* C4 as amended: with no resolving candidate, a positive price and a
\* readable, non-empty history the result is the sum of the payments made
\* less than 365 days before (or on) the latest payment date, divided by the
\* price, and missing when that sum is not positive; a history spanning less
\* than a year is summed whole, however many payments it holds.
DividendFallbackTrailingYear ==
    FallbackApplies => YieldFrom(SumOf(InWindow))

\* Five payments of 1 within one year were all summed: 5 / 50.
DividendFallbackSeen ==
    /\ FallbackApplies
    /\ Len(Payments) = 5 /\ Latest - Earliest < YearDays
    /\ \A i \in DOMAIN Payments : Payments[i].amt = One
    /\ price = Num(50)
    /\ yield = Rat(5, 50)

\* C9: the resolver never raises, and it returns missing exactly when no
\* candidate resolves and one of these holds: no positive price, a history
\* that is empty or cannot be read, a dividend sum that is not positive.  The
\* history is read only when no candidate resolved.
DividendMissingExactly ==
    pc = "dy_done" =>
        /\ yield.k \in {"nan", "num"}
        /\ yield = NaN <=>
              /\ ~Resolves(Cand1) /\ ~Resolves(Cand2)
              /\ \/ ~PricePositive(price)
                 \/ dividends.fail
                 \/ Payments = <<>>
                 \/ ~Lt(Zero, SumOf(InWindow))
        /\ divsRead => ~Resolves(Cand1) /\ ~Resolves(Cand2)

\* The history was read and summed to zero: the result is missing.
DividendMissingSeen ==
    /\ FallbackApplies
    /\ divsRead
    /\ \E i \in DOMAIN Payments : Payments[i].amt = Zero
    /\ yield = NaN

(***************************************************************************)
(* fetch_fundamentals_many called on a list of tickers, against a provider *)
(* whose lookups may fail                                                  *)
(***************************************************************************)
MaxTickers == 2      \* length of the requested list

Symbols == {"AAA", "BBB"}

TickerTexts ==
    {Plain("AAA"), Plain("BBB"), Text("AAA", TRUE, TRUE), Plain(""),
     Text("", FALSE, TRUE)}

Quarterly(n) == [i \in 1..n |-> [date |-> i * 91, amt |-> Rat(1, 2)]]

\* What the provider holds for an instrument: the info dict, the quote type,
\* the closes of the last 5 days and the dividend payments.
Profiles ==
    { \* a stock, its yield and margin quoted in percent
      [info |-> [EmptyInfo EXCEPT !["trailingPE"] = Num(15),
                                  !["forwardPE"] = Num(12),
                                  !["debtToEquity"] = Num(80),
                                  !["dividendYield"] = Rat(119, 100),
                                  !["trailingAnnualDividendYield"] = Rat(15, 1000),
                                  !["profitMargins"] = Num(25),
                                  !["netMargins"] = Rat(1, 10),
                                  !["currentPrice"] = Num(50)],
       quoteType |-> "EQUITY", close |-> <<Num(48)>>, divs |-> Quarterly(4)],
      \* a fund without quoted price or yield
      [info |-> [EmptyInfo EXCEPT !["expenseRatio"] = Rat(35, 10000),
                                  !["fundExpenseRatio"] = Rat(35, 100)],
       quoteType |-> "etf", close |-> <<Num(47), Num(48), NaN>>,
       divs |-> Quarterly(6)],
      \* a fund reporting a ratio of 0 in its annual report
      [info |-> [EmptyInfo EXCEPT !["trailingPE"] = NotANumber,
                                  !["forwardPE"] = NaN,
                                  !["annualReportExpenseRatio"] = Zero,
                                  !["expenseRatio"] = Rat(35, 10000),
                                  !["currentPrice"] = Zero],
       quoteType |-> "ETF", close |-> <<>>, divs |-> <<>>],
      \* an instrument whose only reported ratio is 0
      [info |-> [EmptyInfo EXCEPT !["annualReportExpenseRatio"] = Zero,
                                  !["netMargins"] = Rat(1, 10),
                                  !["dividendYield"] = Rat(-1, 20),
                                  !["currentPrice"] = Num(50)],
       quoteType |-> "", close |-> <<Num(48)>>, divs |-> Quarterly(1)],
      \* an instrument reporting 0 in the last of the three ratio fields
      [info |-> [EmptyInfo EXCEPT !["fundExpenseRatio"] = Zero,
                                  !["debtToEquity"] = Num(80),
                                  !["trailingAnnualDividendYield"] = Rat(45, 100)],
       quoteType |-> "ETF", close |-> <<NaN>>, divs |-> Quarterly(2)] }

\* Which lookups fail.  When yf.Ticker(t) raises, no other lookup is made.
Failures ==
    {[tkFail |-> TRUE, infoFail |-> FALSE, histFail |-> FALSE, divsFail |-> FALSE]}
    \cup [tkFail : {FALSE}, infoFail : BOOLEAN, histFail : BOOLEAN,
          divsFail : BOOLEAN]

World(f, p) ==
    [tkFail |-> f.tkFail, infoFail |-> f.infoFail, histFail |-> f.histFail,
     divsFail |-> f.divsFail, info |-> p.info, quoteType |-> p.quoteType,
     close |-> p.close, divs |-> p.divs]

Worlds == {World(f, p) : f \in Failures, p \in Profiles}

TickerLists == UNION {[1..n -> TickerTexts] : n \in 0..MaxTickers}

InitMany ==
    /\ pc = "fm_call"
    /\ tickers \in TickerLists
    /\ provider \in [Symbols -> Worlds]
    /\ funds = NoTable
    /\ IdleNorm /\ IdleDiv /\ IdleApp /\ IdleStore

FetchFundamentalsMany ==
    /\ pc = "fm_call"
    /\ funds' = fetch_fundamentals_many(tickers, provider)
    /\ pc' = "fm_done"
    /\ UNCHANGED <<tickers, provider, normVars, divVars, appVars, storeVars>>

NextMany == FetchFundamentalsMany

SpecMany == InitMany /\ [][NextMany]_vars

(***************************************************************************)
(* Properties of fetch_fundamentals_one and fetch_fundamentals_many        *)
(***************************************************************************)
Rows == funds.rows

\* The info dict the provider gave for a row's instrument
InfoOf(t) == PullInfo(provider[t]).info

RatioKeys == <<"annualReportExpenseRatio", "expenseRatio", "fundExpenseRatio">>

\* The reported ratio fields holding a number, in the order they are tried
NumericRatios(d) == SelectSeq(RatioKeys, LAMBDA key : IsNum(d[key]))

\* C5 as stated: in every record Expense Ratio is non-missing exactly when
\* one of annualReportExpenseRatio, expenseRatio, fundExpenseRatio holds a
\* number, fund or not, and is then normalize_decimal of the first of them
\* that does; a reported 0 surfaces as 0, not as missing and not as a later
\* field's value.
ExpenseRatioAsStated ==
    pc = "fm_done" =>
        \A i \in DOMAIN Rows :
            LET d == InfoOf(Rows[i].Ticker)
                reported == NumericRatios(d)
            IN  IF reported = <<>> THEN Rows[i].vals["Expense Ratio"] = NaN
                ELSE Rows[i].vals["Expense Ratio"]
                         = _normalize_decimal(d[reported[1]])

\* The symbol a requested ticker stands for
SymbolOf(t) == Upper(Strip(t)).s

\* The requested tickers that are not empty, as symbols, in request order
Requested == SelectSeq([i \in DOMAIN tickers |-> SymbolOf(tickers[i])],
                       LAMBDA t : t # "")

\* C6 as stated: whatever lookups fail (ticker object, info, price history,
\* dividends), the table has one row for every requested non-empty ticker
\* and the six columns P/E, Forward P/E, D/E, Div Yield, Net Profit Margin,
\* Expense Ratio in that order, each row holding a value or missing for
\* every column.
FullyShapedAsStated ==
    pc = "fm_done" =>
        /\ funds.cols = <<"P/E", "Forward P/E", "D/E", "Div Yield",
                          "Net Profit Margin", "Expense Ratio">>
        /\ [i \in DOMAIN Rows |-> Rows[i].Ticker] = Requested
        /\ \A i \in DOMAIN Rows :
               /\ DOMAIN Rows[i].vals = Range(funds.cols)
               /\ \A c \in Range(funds.cols) : Rows[i].vals[c].k \in {"nan", "num"}

\* All lookups of symbol t succeed.
LookupsSucceed(t) ==
    LET w == provider[t]
    IN  ~w.tkFail /\ ~w.infoFail /\ ~w.histFail /\ ~w.divsFail

\* The record of symbol t fetched alone
Alone(t) == fetch_fundamentals_many(<<Plain(t)>>, provider).rows

\* The provider's answers for an instrument with everything but the sources
\* of column c made unobtainable.
SourcesOf(c) ==
    CASE c = "Div Yield" -> {"dividendYield", "trailingAnnualDividendYield",
                             "currentPrice"}
      [] c = "Expense Ratio" -> Range(RatioKeys)
      [] OTHER -> Range(FUND_KEYS_MAP[c])

OnlySources(w, c) ==
    [w EXCEPT !.info = [key \in InfoKeys |->
                           IF key \in SourcesOf(c) THEN w.info[key] ELSE None],
              !.histFail = IF c = "Div Yield" THEN w.histFail ELSE TRUE,
              !.divsFail = IF c = "Div Yield" THEN w.divsFail ELSE TRUE,
              !.quoteType = IF c = "Expense Ratio" THEN w.quoteType ELSE ""]

ColumnAlone(t, c) ==
    fetch_fundamentals_one(Plain(t),
        [provider EXCEPT ![t] = OnlySources(provider[t], c)]).row.vals[c]

\* C7: whatever lookups fail, fetch_fundamentals_many completes without
\* raising; every ticker whose lookups succeed gets one row per request, and
\* every row is the record the ticker gets when fetched alone; and a column
\* of a row has the value it has when the sources of every other column of
\* that instrument are unobtainable.
FailuresIsolated ==
    pc = "fm_done" =>
        /\ ~funds.raised
        /\ \A t \in Symbols :
               LookupsSucceed(t) =>
                   /\ Len(Alone(t)) = 1
                   /\ Len(SelectSeq(Rows, LAMBDA r : r.Ticker = t))
                          = Len(SelectSeq(Requested, LAMBDA u : u = t))
        /\ \A i \in DOMAIN Rows : <<Rows[i]>> = Alone(Rows[i].Ticker)
        /\ \A i \in DOMAIN Rows : \A c \in Range(COLUMNS) :
               Rows[i].vals[c] = ColumnAlone(Rows[i].Ticker, c)

\* A batch in which AAA's ticker object could not be built and BBB's lookups
\* succeeded: BBB's record is there, with its values.
FailuresIsolatedSeen ==
    /\ pc = "fm_done"
    /\ tickers = <<Plain("AAA"), Plain("BBB")>>
    /\ provider["AAA"].tkFail
    /\ LookupsSucceed("BBB")
    /\ Len(Rows) = 1 /\ Rows[1].Ticker = "BBB"
    /\ Rows[1].vals["P/E"] = Num(15)
    /\ Rows[1].vals["Net Profit Margin"] = Rat(1, 4)

(***************************************************************************)
(* One run of the page script, from the sidebar controls to the combined   *)
(* table                                                                   *)
(***************************************************************************)
MaxTokens == 2       \* pieces of text in the Quick Compare box

AppSymbols == {"AAA", "SPX", "SPY", "^GSPC"}

UserTexts ==
    {Plain("AAA"), Plain("SPY"), Text("SPY", TRUE, TRUE), Plain("SPX"),
     Plain("")}

BenchmarkTexts ==
    {Plain("SPY"), Plain(""), Text("SPX", TRUE, TRUE), Plain("^GSPC")}

\* The provider's fundamentals: one profile, each ticker object either built
\* or not.
AppWorlds ==
    LET p == CHOOSE q \in Profiles : q.quoteType = "EQUITY"
    IN  {World(f, p) : f \in {g \in Failures : ~g.infoFail /\ ~g.histFail
                                                /\ ~g.divsFail}}

InitApp ==
    /\ pc = "controls"
    /\ benchmark_input \in BenchmarkTexts
    /\ user_tokens \in UNION {[1..n -> UserTexts] : n \in 0..MaxTokens}
    /\ saved \in SUBSET {"AAA", "SPY"}
    /\ loadable \in SUBSET AppSymbols
    /\ \E w \in AppWorlds :
           provider = [t \in AppSymbols |->
                          IF t = "AAA" THEN w
                          ELSE CHOOSE x \in AppWorlds : ~x.tkFail]
    /\ benchmark = "" /\ user_tickers = <<>>
    /\ prices = <<>> /\ metrics = <<>> /\ fund_tickers = <<>> /\ combined = <<>>
    /\ tickers = <<>> /\ funds = NoTable
    /\ IdleNorm /\ IdleDiv /\ IdleStore

\* app.py 29-32
ReadControls ==
    /\ pc = "controls"
    /\ benchmark' = normalize_ticker(benchmark_input)
    /\ pc' = "universe"
    /\ UNCHANGED <<benchmark_input, user_tokens, saved, user_tickers, loadable,
                   prices, metrics, fund_tickers, combined, normVars, divVars,
                   manyVars, storeVars>>

\* app.py 100-109
BuildUniverse ==
    /\ pc = "universe"
    /\ LET typed == normalize_list(parse_ticker_list(user_tokens))
           universe == IF typed # <<>> THEN typed ELSE Sorted(saved)
       IN  /\ user_tickers' = universe
           /\ pc' = IF universe = <<>> THEN "stopped" ELSE "prices"
    /\ UNCHANGED <<benchmark_input, user_tokens, saved, benchmark, loadable,
                   prices, metrics, fund_tickers, combined, normVars, divVars,
                   manyVars, storeVars>>

\* app.py 112-120
FetchPrices ==
    /\ pc = "prices"
    /\ prices' = fetch_close_many(TickersToFetch(user_tickers, benchmark), loadable)
    /\ pc' = IF prices' = <<>> THEN "stopped" ELSE "metrics"
    /\ UNCHANGED <<benchmark_input, user_tokens, saved, benchmark, user_tickers,
                   loadable, metrics, fund_tickers, combined, normVars, divVars,
                   manyVars, storeVars>>

\* app.py 131
ComputeMetrics ==
    /\ pc = "metrics"
    /\ metrics' = compute_all_metrics(prices, benchmark)
    /\ pc' = "fundamentals"
    /\ UNCHANGED <<benchmark_input, user_tokens, saved, benchmark, user_tickers,
                   loadable, prices, fund_tickers, combined, normVars, divVars,
                   manyVars, storeVars>>

\* app.py 134-135
FetchFundamentals ==
    /\ pc = "fundamentals"
    /\ fund_tickers' = FundTickers(metrics)
    /\ tickers' = fund_tickers'
    /\ funds' = fetch_fundamentals_many(fund_tickers', provider)
    /\ pc' = "join"
    /\ UNCHANGED <<benchmark_input, user_tokens, saved, benchmark, user_tickers,
                   loadable, prices, metrics, combined, provider, normVars,
                   divVars, storeVars>>

\* app.py 136
Join ==
    /\ pc = "join"
    /\ combined' = LeftJoin(metrics, funds)
    /\ pc' = "shown"
    /\ UNCHANGED <<benchmark_input, user_tokens, saved, benchmark, user_tickers,
                   loadable, prices, metrics, fund_tickers, normVars, divVars,
                   manyVars, storeVars>>

NextApp ==
    \/ ReadControls
    \/ BuildUniverse
    \/ FetchPrices
    \/ ComputeMetrics
    \/ FetchFundamentals
    \/ Join

SpecApp == InitApp /\ [][NextApp]_vars

(***************************************************************************)
(* Properties of the page script                                           *)
(***************************************************************************)
Index(rows) == [i \in DOMAIN rows |-> rows[i].Ticker]

\* The instruments that were loaded, the benchmark left out
LoadedNonBenchmark ==
    ((Range(user_tickers) \cup {benchmark}) \cap loadable) \ {benchmark}

\* C8: the metrics table has one row for every identifier of the price
\* matrix other than the benchmark and none for the benchmark, also when the
\* user listed the benchmark among the tickers; fundamentals are fetched
\* for, and the combined table shows, exactly the loaded instruments that
\* are not the benchmark.
MetricsExcludeBenchmark ==
    /\ pc \in {"fundamentals", "join", "shown"} =>
           /\ Range(metrics) = Range(prices) \ {benchmark}
           /\ Len(metrics) = Cardinality(Range(metrics))
           /\ benchmark \notin Range(metrics)
           /\ Range(metrics) = LoadedNonBenchmark
    /\ pc \in {"join", "shown"} =>
           /\ [i \in DOMAIN fund_tickers |-> SymbolOf(fund_tickers[i])] = metrics
           /\ tickers = fund_tickers
    /\ pc = "shown" => Index(combined) = metrics

\* The user listed the benchmark SPY beside AAA, both loaded, and AAA's
\* ticker object could not be built: the combined table shows AAA alone,
\* with missing fundamentals.
MetricsExcludeBenchmarkSeen ==
    /\ pc = "shown"
    /\ benchmark = "SPY"
    /\ user_tickers = <<"AAA", "SPY">>
    /\ prices = <<"AAA", "SPY">>
    /\ provider["AAA"].tkFail
    /\ metrics = <<"AAA">>
    /\ combined = <<MissingRow("AAA")>>

(***************************************************************************)
(* SpecStore: one session of the sidebar over a watchlist file.  Each run  *)
(* of the script loads the file (app.py line 37) and then handles one Add  *)
(* or one Remove; the next run loads the file again.                       *)
(***************************************************************************)
MaxItems == 2

StoreSymbols == {"AAA", "BBB"}
OpCategories == {"US Equities", "Gold"}

\* What a list in the file may hold: tickers as stored, in lower case with
\* blanks around, blanks only, the empty string, null and a number
Items ==
    {StrItem(Plain("AAA")), StrItem(Text("AAA", TRUE, TRUE)), StrItem(Plain("BBB")),
     StrItem(Text("", FALSE, TRUE)), StrItem(Plain("")), NullItem, IntItem}

Values ==
    {ListVal(l) : l \in UNION {[1..n -> Items] : n \in 0..MaxItems}}
        \cup {NullVal, ScalarVal}

GoldValues ==
    {Strings(<<>>), Strings(<<"BBB">>),
     ListVal(<<StrItem(Text("BBB", TRUE, FALSE)), StrItem(Plain("AAA"))>>)}

Absent == [has |-> FALSE, val |-> ListVal(<<>>)]
Opt(S) == {Absent} \cup {[has |-> TRUE, val |-> x] : x \in S}

Mapping(u, g, x) ==
    LET e == [c \in {"US Equities", "Gold", "Crypto"} |->
                 IF c = "US Equities" THEN u ELSE IF c = "Gold" THEN g ELSE x]
    IN  [c \in {k \in DOMAIN e : e[k].has} |-> e[c].val]

Files ==
    {[state |-> st, top |-> "none", map |-> NoMap] :
        st \in {"absent", "unreadable", "corrupt", "parsed"}}
    \cup {[state |-> "parsed", top |-> tp, map |-> NoMap] : tp \in {"list", "scalar"}}
    \cup {MapFile(Mapping(u, g, x)) :
            u \in Opt(Values), g \in Opt(GoldValues), x \in Opt({Strings(<<"AAA">>)})}

\* What is typed in the Ticker box
AddTexts ==
    {Plain("AAA"), Text("AAA", TRUE, TRUE), Plain("BBB"), Text("BBB", TRUE, FALSE),
     Text("", FALSE, TRUE), Plain("")}

InitStore ==
    /\ pc = "start"
    /\ file \in Files
    /\ data = NoMap
    /\ last = NoLast
    /\ lastOp = [c \in OpCategories |-> [t \in StoreSymbols |-> "none"]]
    /\ IdleNorm /\ IdleDiv /\ IdleMany /\ IdleApp

\* data = load_watchlist()
Load ==
    /\ pc = "start"
    /\ ~load_watchlist(file).raised
    /\ data' = load_watchlist(file).data
    /\ pc' = "loaded"
    /\ UNCHANGED <<file, last, lastOp, normVars, divVars, manyVars, appVars>>

\* data = load_watchlist() raises and the run ends with the exception
LoadRaises ==
    /\ pc = "start"
    /\ load_watchlist(file).raised
    /\ pc' = "crashed"
    /\ UNCHANGED <<storeVars, normVars, divVars, manyVars, appVars>>

\* The add form submitted with nothing but blanks in the Ticker box
AddBlank ==
    /\ pc = "loaded"
    /\ \E t \in AddTexts : ~Submitted(t)
    /\ pc' = "start"
    /\ UNCHANGED <<storeVars, normVars, divVars, manyVars, appVars>>

\* The add form submitted with a ticker the category has: nothing is saved
AddListed ==
    /\ pc = "loaded"
    /\ \E cat \in OpCategories, t \in AddTexts :
          /\ Submitted(t)
          /\ Listed(data, cat, t)
          /\ last' = [op |-> "add", cat |-> cat, t |-> t, wrote |-> FALSE, view |-> data,
                      before |-> file]
          /\ lastOp' = [lastOp EXCEPT ![cat][Upper(Strip(t)).s] = "add"]
    /\ pc' = "start"
    /\ UNCHANGED <<file, data, normVars, divVars, manyVars, appVars>>

\* The add form submitted with a ticker the category lacks
Add ==
    /\ pc = "loaded"
    /\ \E cat \in OpCategories, t \in AddTexts :
          /\ Submitted(t)
          /\ ~Listed(data, cat, t)
          /\ data' = AddTicker(data, cat, t)
          /\ file' = save_watchlist(data', file).file
          /\ last' = [op |-> "add", cat |-> cat, t |-> t, wrote |-> TRUE, view |-> data,
                      before |-> file]
          /\ lastOp' = [lastOp EXCEPT ![cat][Upper(Strip(t)).s] = "add"]
    /\ pc' = "start"
    /\ UNCHANGED <<normVars, divVars, manyVars, appVars>>

\* The Remove button pressed with a ticker of data[cat_r] selected
Remove ==
    /\ pc = "loaded"
    /\ \E cat \in OpCategories :
          /\ data[cat].items # <<>>
          /\ \E to_remove \in Range(StringsOf(data[cat])) :
                /\ data' = RemoveTicker(data, cat, to_remove)
                /\ file' = save_watchlist(data', file).file
                /\ last' = [op |-> "remove", cat |-> cat, t |-> Plain(to_remove),
                            wrote |-> TRUE, view |-> data, before |-> file]
                /\ lastOp' = IF to_remove \in StoreSymbols
                             THEN [lastOp EXCEPT ![cat][to_remove] = "remove"]
                             ELSE lastOp
    /\ pc' = "start"
    /\ UNCHANGED <<normVars, divVars, manyVars, appVars>>

NextStore == Load \/ LoadRaises \/ AddBlank \/ AddListed \/ Add \/ Remove

SpecStore == InitStore /\ [][NextStore]_vars

(***************************************************************************)
(* Properties of SpecStore                                                 *)
(***************************************************************************)
Defaults == Range(DEFAULT_CATEGORIES)

\* The run is past line 37 of app.py: load_watchlist returned or raised
LoadEnded == pc \in {"loaded", "crashed"}

\* C11, as stated: load_watchlist never raises; whatever the file is
\* (absent, unreadable, corrupt, or parsed to something that is no mapping
\* of category to list of strings) it returns a mapping that has a list for
\* every default category.
LoadNeverRaisesAsStated ==
    LoadEnded =>
        /\ pc = "loaded"
        /\ \A c \in Defaults : c \in DOMAIN data /\ data[c].kind = "list"

\* The place of a string in the order of sorted()
Place(x) == CHOOSE i \in DOMAIN SymbolOrder : SymbolOrder[i] = x

\* A non-empty, stripped, upper-case string
CleanTicker(x) == x.kind = "str" /\ x.t.s # "" /\ ~x.t.lc /\ ~x.t.pad

\* A list of clean tickers, ascending and so without duplicates
CleanList(val) ==
    /\ val.kind = "list"
    /\ \A i \in DOMAIN val.items : CleanTicker(val.items[i])
    /\ \A i, j \in DOMAIN val.items :
          i < j => Place(val.items[i].t.s) < Place(val.items[j].t.s)

CleanMapping(m) == \A c \in Defaults : c \in DOMAIN m /\ CleanList(m[c])

\* C12, as stated: after load_watchlist returns, and in the file after any
\* save_watchlist, each of the ten default categories is present and its
\* list is ascending, free of duplicates and made of non-empty, stripped,
\* upper-case strings only.
CategoriesCleanAsStated ==
    /\ pc = "loaded" => CleanMapping(data)
    /\ last.wrote => file.state = "parsed" /\ file.top = "map" /\ CleanMapping(file.map)

\* How many entries of a list are the ticker x, in any case and padding
Entries(val, x) ==
    Cardinality({i \in DOMAIN val.items :
                    val.items[i].kind = "str" /\ val.items[i].t.s = x})

\* The list holds x once, as the stripped upper-case string
StoredOnce(val, x) ==
    /\ Entries(val, x) = 1
    /\ \E i \in DOMAIN val.items : val.items[i] = StrItem(Plain(x))

\* The last operation added a ticker its category already had
AddedListed ==
    /\ last.op = "add"
    /\ Entries(last.view[last.cat], last.t.s) > 0

\* C13: in the watchlist reloaded after Add and Remove operations, a ticker
\* an operation named is in a category exactly when the last operation on
\* it there was an Add, and then it is stored once, stripped and in upper
\* case; adding a ticker the category has leaves the category as it was,
\* and filtering out a ticker the category lacks (the Remove box offers
\* only the tickers it has) leaves it as it was too.
LastOperationWins ==
    pc = "loaded" =>
        /\ \A c \in OpCategories, x \in StoreSymbols :
              /\ lastOp[c][x] = "add" => StoredOnce(data[c], x)
              /\ lastOp[c][x] = "remove" => Entries(data[c], x) = 0
              /\ Entries(data[c], x) = 0 => RemoveTicker(data, c, x)[c] = data[c]
        /\ AddedListed => data[last.cat] = last.view[last.cat]

\* A session that added "bbb" to Gold, which had BBB, after AAA was added
\* to and then removed from US Equities
LastOperationSeen ==
    /\ pc = "loaded"
    /\ AddedListed /\ last.cat = "Gold" /\ last.t = Text("BBB", TRUE, FALSE)
    /\ lastOp["US Equities"]["AAA"] = "remove"
    /\ lastOp["US Equities"]["BBB"] = "add"
    /\ data["US Equities"] = Strings(<<"BBB">>)
    /\ data["Gold"] = Strings(<<"AAA", "BBB">>)

\* An Add or a Remove has been handled
Operated == last.op # "none"

\* C14, as stated: an Add or a Remove on one category leaves what the file
\* stores for every other category as it was, the categories that are not
\* default ones included.
OtherCategoriesAsStated ==
    Operated =>
        \A c \in DOMAIN last.before.map \ {last.cat} :
            c \in DOMAIN file.map /\ file.map[c] = last.before.map[c]

\* The non-empty tickers of a list of strings, stripped and in upper case
Tickers(val) ==
    {val.items[i].t.s : i \in {j \in DOMAIN val.items : val.items[j].kind = "str"}}
        \ {""}

\* The tickers the file has for a category, none when it lacks the category
TickersIn(f, c) == IF c \in DOMAIN f.map THEN Tickers(f.map[c]) ELSE {}

\* C14: an Add or a Remove on one category leaves the set of tickers the
\* file has for every other default category as it was; when it writes the
\* file (a Remove, or an Add of a ticker not listed yet) the file holds the
\* ten default categories and no other, and when it does not (an Add of a
\* ticker already listed) the file stays as it was.
OtherCategoriesKept ==
    Operated =>
        /\ \A c \in Defaults \ {last.cat} : TickersIn(file, c) = TickersIn(last.before, c)
        /\ last.wrote => DOMAIN file.map = Defaults
        /\ ~last.wrote => file = last.before

\* AAA removed from US Equities of a file that had Gold as ["bbb", "AAA"]
\* and a category Crypto
OtherCategoriesSeen ==
    /\ last.op = "remove" /\ last.cat = "US Equities" /\ last.t = Plain("AAA")
    /\ "Crypto" \in DOMAIN last.before.map
    /\ "Crypto" \notin DOMAIN file.map
    /\ "Gold" \in DOMAIN last.before.map
    /\ last.before.map["Gold"] =
          ListVal(<<StrItem(Text("BBB", TRUE, FALSE)), StrItem(Plain("AAA"))>>)
    /\ file.map["Gold"] = Strings(<<"AAA", "BBB">>)

====
